---------------------------- MODULE Spec2Model ----------------------------
(***************************************************************************)
(* Model of prediction_market_agent_tooling/markets/omen/data_models.py:   *)
(* the Omen market and bet records and their derived values (implied       *)
(* probability, boolean outcome, resolution, profit, ResolvedBet).         *)
(*                                                                         *)
(* Conventions.                                                            *)
(*  - An Optional[T] field is a sequence: <<>> is None, <<v>> is v.        *)
(*  - A Python str that the code only compares (an outcome label) is a TLA+ *)
(*    string; a str that the code parses (currentAnswer) is a sequence of   *)
(*    one-character strings.                                               *)
(*  - The outcome of a call is a record: Ok(v) when it returns v, Err(e)    *)
(*    when it raises; e names the raise site by the error taxonomy.         *)
(*  - A float is an exact rational [num, den]; a converted xDai amount is   *)
(*    an exact decimal [wei, decimals]. Floating-point rounding is not      *)
(*    modelled.                                                            *)
(***************************************************************************)
EXTENDS Integers, Sequences, FiniteSets

VARIABLES market, bet, op, arg, result

vars == <<market, bet, op, arg, result>>

\* Longest outcomes / outcomeTokenAmounts list drawn as an input.
MaxOutcomes == 3

-----------------------------------------------------------------------------
(* Python values *)

None == <<>>

Some(v) == <<v>>

Ok(v) == [ok |-> TRUE, val |-> v, err |-> "none"]

Err(e) == [ok |-> FALSE, val |-> <<>>, err |-> e]

\* list[i] of Python: a negative i counts from the end, IndexError outside.
PyGetItem(list, i) ==
    LET n == Len(list)
    IN  IF i >= 0 /\ i < n THEN Ok(list[i + 1])
        ELSE IF i < 0 /\ i >= -n THEN Ok(list[n + i + 1])
        ELSE Err("IndexError")

\* list.index(x) of Python: the first position of x (0-based), ValueError
\* when x is not in the list.
PyIndex(list, x) ==
    IF \E k \in 1..Len(list) : list[k] = x
    THEN Ok((CHOOSE k \in 1..Len(list) :
                 list[k] = x /\ \A j \in 1..(k - 1) : list[j] # x) - 1)
    ELSE Err("OutcomeNotFound")

RECURSIVE PySum(_)
PySum(list) == IF list = <<>> THEN 0 ELSE Head(list) + PySum(Tail(list))

HexDigit(c) ==
    CASE c = "0" -> 0 [] c = "1" -> 1 [] c = "2" -> 2 [] c = "3" -> 3
      [] c = "4" -> 4 [] c = "5" -> 5 [] c = "6" -> 6 [] c = "7" -> 7
      [] c = "8" -> 8 [] c = "9" -> 9
      [] c \in {"a", "A"} -> 10 [] c \in {"b", "B"} -> 11
      [] c \in {"c", "C"} -> 12 [] c \in {"d", "D"} -> 13
      [] c \in {"e", "E"} -> 14 [] c \in {"f", "F"} -> 15
      [] OTHER -> -1

RECURSIVE HexValue(_, _)
HexValue(digits, acc) ==
    IF digits = <<>> THEN acc
    ELSE HexValue(Tail(digits), 16 * acc + HexDigit(Head(digits)))

\* int(s, 16) of Python on a string without blanks or underscores: an
\* optional sign, an optional 0x / 0X prefix, then at least one hex digit;
\* ValueError otherwise.
PyIntBase16(s) ==
    LET signed   == s # <<>> /\ s[1] \in {"+", "-"}
        unsigned == IF signed THEN Tail(s) ELSE s
        prefixed == Len(unsigned) >= 2 /\ unsigned[1] = "0"
                    /\ unsigned[2] \in {"x", "X"}
        digits   == IF prefixed THEN SubSeq(unsigned, 3, Len(unsigned))
                    ELSE unsigned
        value    == HexValue(digits, 0)
    IN  IF digits = <<>> \/ \E k \in 1..Len(digits) : HexDigit(digits[k]) < 0
        THEN Err("InvalidHex")
        ELSE Ok(IF signed /\ s[1] = "-" THEN -value ELSE value)

\* tools.utils.check_not_none: the value, or an error when it is None.
check_not_none(opt) == IF opt = None THEN Err("ValueIsNone") ELSE Ok(opt[1])

\* tools.web3_utils.wei_to_xdai: wei scaled by 10^-18.
wei_to_xdai(wei) == [wei |-> wei, decimals |-> 18]

\* datetime.fromtimestamp(ts): the local calendar time of epoch second ts.
fromtimestamp(ts) == [epoch |-> ts, zone |-> "local"]

-----------------------------------------------------------------------------
(* Module constants and the outcome decoder *)

OMEN_TRUE_OUTCOME == "Yes"

OMEN_FALSE_OUTCOME == "No"

\* Variant: every label but "Yes" is taken for false.
get_boolean_outcome_lenient(outcome_str) ==
    IF outcome_str = OMEN_TRUE_OUTCOME THEN Ok(TRUE) ELSE Ok(FALSE)

get_boolean_outcome(outcome_str) ==
    IF outcome_str = OMEN_TRUE_OUTCOME THEN Ok(TRUE)
    ELSE IF outcome_str = OMEN_FALSE_OUTCOME THEN Ok(FALSE)
    ELSE Err("InvalidOutcomeLabel")

-----------------------------------------------------------------------------
(* OmenMarket *)

\* The fields the derived values read. outcomeTokenAmounts is a required
\* list: a validated record never holds None there, so the `is None` test
\* of p_yes (lines 105-108) never fires and has no branch below.
OmenMarket(outcomes, amounts, finalized, answer, resolved) ==
    [title                    |-> "market",
     outcomes                 |-> outcomes,
     outcomeTokenAmounts      |-> amounts,
     resolutionTimestamp      |-> resolved,
     answerFinalizedTimestamp |-> finalized,
     currentAnswer            |-> answer]

OmenMarket_is_open(m) == m.currentAnswer = None

\* Variant: resolved as soon as an answer is recorded.
OmenMarket_is_resolved_answered(m) == m.currentAnswer # None

OmenMarket_is_resolved(m) ==
    m.answerFinalizedTimestamp # None /\ m.currentAnswer # None

OmenMarket_is_binary(m) == Len(m.outcomes) = 2

\* Variant: no fallback for an empty pool, so the division raises.
OmenMarket_p_yes_unguarded(m) ==
    LET amounts    == m.outcomeTokenAmounts
        true_index == PyIndex(m.outcomes, OMEN_TRUE_OUTCOME)
        total      == PySum(amounts)
        held       == PyGetItem(amounts, true_index.val)
    IN  IF Len(amounts) # 2 THEN Err("UnsupportedMarketShape")
        ELSE IF ~true_index.ok THEN true_index
        ELSE IF ~held.ok THEN held
        ELSE IF total = 0 THEN Err("ZeroDivisionError")
        ELSE Ok([num |-> total - held.val, den |-> total])

\* Variant: the shape test counts the outcomes, not the token amounts.
OmenMarket_p_yes_by_outcomes(m) ==
    LET amounts    == m.outcomeTokenAmounts
        true_index == PyIndex(m.outcomes, OMEN_TRUE_OUTCOME)
        total      == PySum(amounts)
        held       == PyGetItem(amounts, true_index.val)
    IN  IF Len(m.outcomes) # 2 THEN Err("UnsupportedMarketShape")
        ELSE IF ~true_index.ok THEN true_index
        ELSE IF total = 0 THEN Ok([num |-> 1, den |-> 2])
        ELSE IF ~held.ok THEN held
        ELSE Ok([num |-> total - held.val, den |-> total])

\* Variant: the pool's share of the "Yes" token itself, not its complement.
OmenMarket_p_yes_direct(m) ==
    LET amounts    == m.outcomeTokenAmounts
        true_index == PyIndex(m.outcomes, OMEN_TRUE_OUTCOME)
        total      == PySum(amounts)
        held       == PyGetItem(amounts, true_index.val)
    IN  IF Len(amounts) # 2 THEN Err("UnsupportedMarketShape")
        ELSE IF ~true_index.ok THEN true_index
        ELSE IF total = 0 THEN Ok([num |-> 1, den |-> 2])
        ELSE IF ~held.ok THEN held
        ELSE Ok([num |-> held.val, den |-> total])

\* 1 - amounts[true_index] / sum(amounts) as an exact rational; the index
\* is resolved as by PyGetItem.
OmenMarket_p_yes(m) ==
    LET amounts    == m.outcomeTokenAmounts
        true_index == PyIndex(m.outcomes, OMEN_TRUE_OUTCOME)
        total      == PySum(amounts)
        held       == PyGetItem(amounts, true_index.val)
    IN  IF Len(amounts) # 2 THEN Err("UnsupportedMarketShape")
        ELSE IF ~true_index.ok THEN true_index
        ELSE IF total = 0 THEN Ok([num |-> 1, den |-> 2])
        ELSE IF ~held.ok THEN held
        ELSE Ok([num |-> total - held.val, den |-> total])

OmenMarket_p_no(m) ==
    LET p == OmenMarket_p_yes(m)
    IN  IF ~p.ok THEN p
        ELSE Ok([num |-> p.val.den - p.val.num, den |-> p.val.den])

OmenMarket_boolean_outcome(m) ==
    IF ~OmenMarket_is_binary(m) THEN Err("NotBinary")
    ELSE IF ~OmenMarket_is_resolved(m) THEN Err("MarketNotResolved")
    ELSE LET answer  == check_not_none(m.currentAnswer)
             index   == PyIntBase16(answer.val)
             outcome == PyGetItem(m.outcomes, index.val)
         IN  IF ~answer.ok THEN answer
             ELSE IF ~index.ok THEN index
             ELSE IF ~outcome.ok THEN outcome
             ELSE get_boolean_outcome(outcome.val)

OmenMarket_get_resolution_enum(m) ==
    IF ~OmenMarket_is_resolved(m) THEN Ok("None")
    ELSE LET b == OmenMarket_boolean_outcome(m)
         IN  IF ~b.ok THEN b
             ELSE IF b.val THEN Ok("YES") ELSE Ok("NO")

-----------------------------------------------------------------------------
(* OmenBetFPMM: the market snapshot embedded in a bet *)

OmenBetFPMM(outcomes, finalized, answer, resolved) ==
    [title                    |-> "market",
     outcomes                 |-> outcomes,
     answerFinalizedTimestamp |-> finalized,
     resolutionTimestamp      |-> resolved,
     currentAnswer            |-> answer]

\* Variant: resolved when the resolution timestamp is present.
OmenBetFPMM_is_resolved_by_timestamp(f) == f.resolutionTimestamp # None

OmenBetFPMM_is_resolved(f) ==
    f.answerFinalizedTimestamp # None /\ f.currentAnswer # None

OmenBetFPMM_is_binary(f) == Len(f.outcomes) = 2

\* Variant: the resolution test comes before the binary test.
OmenBetFPMM_boolean_outcome_resolved_first(f) ==
    IF ~OmenBetFPMM_is_resolved(f) THEN Err("MarketNotResolved")
    ELSE IF ~OmenBetFPMM_is_binary(f) THEN Err("NotBinary")
    ELSE LET answer  == check_not_none(f.currentAnswer)
             index   == PyIntBase16(answer.val)
             outcome == PyGetItem(f.outcomes, index.val)
         IN  IF ~answer.ok THEN answer
             ELSE IF ~index.ok THEN index
             ELSE IF ~outcome.ok THEN outcome
             ELSE get_boolean_outcome(outcome.val)

\* Variant: no resolution test, the current answer is decoded as it stands.
OmenBetFPMM_boolean_outcome_unchecked(f) ==
    IF ~OmenBetFPMM_is_binary(f) THEN Err("NotBinary")
    ELSE LET answer  == check_not_none(f.currentAnswer)
             index   == PyIntBase16(answer.val)
             outcome == PyGetItem(f.outcomes, index.val)
         IN  IF ~answer.ok THEN answer
             ELSE IF ~index.ok THEN index
             ELSE IF ~outcome.ok THEN outcome
             ELSE get_boolean_outcome(outcome.val)

OmenBetFPMM_boolean_outcome(f) ==
    IF ~OmenBetFPMM_is_binary(f) THEN Err("NotBinary")
    ELSE IF ~OmenBetFPMM_is_resolved(f) THEN Err("MarketNotResolved")
    ELSE LET answer  == check_not_none(f.currentAnswer)
             index   == PyIntBase16(answer.val)
             outcome == PyGetItem(f.outcomes, index.val)
         IN  IF ~answer.ok THEN answer
             ELSE IF ~index.ok THEN index
             ELSE IF ~outcome.ok THEN outcome
             ELSE get_boolean_outcome(outcome.val)

-----------------------------------------------------------------------------
(* OmenBet *)

OmenBet(fpmm, outcomeIndex, collateralAmount, outcomeTokensTraded, feeAmount) ==
    [title               |-> "market",
     creationTimestamp   |-> 100,
     collateralAmount    |-> collateralAmount,
     collateralAmountUSD |-> 12,
     feeAmount           |-> feeAmount,
     outcomeIndex        |-> outcomeIndex,
     outcomeTokensTraded |-> outcomeTokensTraded,
     fpmm                |-> fpmm]

OmenBet_boolean_outcome(b) ==
    LET outcome == PyGetItem(b.fpmm.outcomes, b.outcomeIndex)
    IN  IF ~outcome.ok THEN outcome ELSE get_boolean_outcome(outcome.val)

\* Variant: a winning bet is credited the tokens traded, the stake not
\* taken off.
OmenBet_profit_before_fee_gross(b) ==
    LET bet_amount_xdai == wei_to_xdai(b.collateralAmount)
        traded_xdai     == wei_to_xdai(b.outcomeTokensTraded)
        chosen          == OmenBet_boolean_outcome(b)
        final           == OmenBetFPMM_boolean_outcome(b.fpmm)
    IN  IF ~chosen.ok THEN chosen
        ELSE IF ~final.ok THEN final
        ELSE IF chosen.val = final.val
             THEN Ok(traded_xdai)
             ELSE Ok([wei      |-> -bet_amount_xdai.wei,
                      decimals |-> bet_amount_xdai.decimals])

\* Lines 214-219: the profit before the fee is taken off. The condition of
\* the conditional expression is evaluated first, left operand first.
OmenBet_profit_before_fee(b) ==
    LET bet_amount_xdai == wei_to_xdai(b.collateralAmount)
        traded_xdai     == wei_to_xdai(b.outcomeTokensTraded)
        chosen          == OmenBet_boolean_outcome(b)
        final           == OmenBetFPMM_boolean_outcome(b.fpmm)
    IN  IF ~chosen.ok THEN chosen
        ELSE IF ~final.ok THEN final
        ELSE IF chosen.val = final.val
             THEN Ok([wei      |-> traded_xdai.wei - bet_amount_xdai.wei,
                      decimals |-> bet_amount_xdai.decimals])
             ELSE Ok([wei      |-> -bet_amount_xdai.wei,
                      decimals |-> bet_amount_xdai.decimals])

\* Variant: the fee is taken off a winning bet only.
OmenBet_get_profit_fee_on_win(b) ==
    LET profit == OmenBet_profit_before_fee(b)
        fee    == wei_to_xdai(b.feeAmount)
        won    == OmenBet_boolean_outcome(b) = OmenBetFPMM_boolean_outcome(b.fpmm)
    IN  IF ~profit.ok THEN profit
        ELSE Ok([amount   |-> [wei      |-> IF won THEN profit.val.wei - fee.wei
                                            ELSE profit.val.wei,
                               decimals |-> fee.decimals],
                 currency |-> "xDai"])

OmenBet_get_profit(b) ==
    LET profit == OmenBet_profit_before_fee(b)
        fee    == wei_to_xdai(b.feeAmount)
    IN  IF ~profit.ok THEN profit
        ELSE Ok([amount   |-> [wei      |-> profit.val.wei - fee.wei,
                               decimals |-> fee.decimals],
                 currency |-> "xDai"])

\* The keyword arguments of ResolvedBet(...) are evaluated in the order
\* written, so the first one that raises decides the error.
OmenBet_to_generic_resolved_bet(b) ==
    LET outcome        == OmenBet_boolean_outcome(b)
        market_outcome == OmenBetFPMM_boolean_outcome(b.fpmm)
        resolved       == check_not_none(b.fpmm.resolutionTimestamp)
        profit         == OmenBet_get_profit(b)
    IN  IF ~OmenBetFPMM_is_resolved(b.fpmm) THEN Err("MarketNotResolved")
        ELSE IF ~outcome.ok THEN outcome
        ELSE IF ~market_outcome.ok THEN market_outcome
        ELSE IF ~resolved.ok THEN resolved
        ELSE IF ~profit.ok THEN profit
        ELSE Ok([amount          |-> [amount   |-> b.collateralAmountUSD,
                                      currency |-> "xDai"],
                 outcome         |-> outcome.val,
                 created_time    |-> fromtimestamp(b.creationTimestamp),
                 market_question |-> b.title,
                 market_outcome  |-> market_outcome.val,
                 resolved_time   |-> fromtimestamp(resolved.val),
                 profit          |-> profit.val])

-----------------------------------------------------------------------------
(* Inputs *)

Labels == {"Yes", "No", "Maybe"}

LabelStrings == Labels \cup {"yes", "NO", ""}

AmountValues == {-30, 0, 30, 70}

\* List lengths, longest first.
Lengths == [k \in 0..MaxOutcomes |-> MaxOutcomes - k]

ListsOfLength(n, S) == [1..n -> S]

\* currentAnswer strings: index 0, index 1 (zero-padded), an index past the
\* end of every list drawn (the "invalid" answer), and a non-hex string.
AnswerStrings ==
    {<<"0", "x", "0">>, <<"0", "x", "0", "1">>, <<"0", "x", "f", "f">>, <<"g">>}

IndexValues == -1..MaxOutcomes

TradedValues == {5, 15}

FeeValues == {0, 1}

NotCalled == Err("not called")

\* The full-market record of the same on-chain market as a bet's snapshot.
MarketOf(f) ==
    OmenMarket(f.outcomes, [k \in 1..Len(f.outcomes) |-> 50],
               f.answerFinalizedTimestamp, f.currentAnswer,
               f.resolutionTimestamp)

-----------------------------------------------------------------------------
(* The bet lifecycle: a bet is placed on an open market; the chain then     *)
(* records an answer, finalizes it and resolves the market, and after each  *)
(* step the records are built again from the new snapshot. Any derived     *)
(* value may be asked for at any point.                                    *)

Init ==
    /\ \E k \in DOMAIN Lengths :
         \E o \in ListsOfLength(Lengths[k], Labels), i \in IndexValues,
            t \in TradedValues, fee \in FeeValues :
             bet = OmenBet(OmenBetFPMM(o, None, None, None), i, 10, t, fee)
    /\ market = MarketOf(bet.fpmm)
    /\ op = "none"
    /\ arg = ""
    /\ result = NotCalled

Refetch(f) ==
    /\ bet' = [bet EXCEPT !.fpmm = f]
    /\ market' = MarketOf(f)
    /\ op' = "none"
    /\ result' = NotCalled
    /\ UNCHANGED arg

AnswerPosted ==
    /\ bet.fpmm.currentAnswer = None
    /\ \E a \in AnswerStrings :
           Refetch([bet.fpmm EXCEPT !.currentAnswer = Some(a)])

AnswerFinalized ==
    /\ bet.fpmm.answerFinalizedTimestamp = None
    /\ Refetch([bet.fpmm EXCEPT !.answerFinalizedTimestamp = Some(200)])

MarketResolved ==
    /\ bet.fpmm.resolutionTimestamp = None
    /\ Refetch([bet.fpmm EXCEPT !.resolutionTimestamp = Some(300)])

Call(name, outcome) ==
    /\ op' = name
    /\ arg' = ""
    /\ result' = outcome
    /\ UNCHANGED <<market, bet>>

BetBooleanOutcome == Call("bet.boolean_outcome", OmenBet_boolean_outcome(bet))

FpmmBooleanOutcome ==
    Call("fpmm.boolean_outcome", OmenBetFPMM_boolean_outcome(bet.fpmm))

MarketBooleanOutcome ==
    Call("market.boolean_outcome", OmenMarket_boolean_outcome(market))

GetResolutionEnum ==
    Call("get_resolution_enum", OmenMarket_get_resolution_enum(market))

GetProfit == Call("get_profit", OmenBet_get_profit(bet))

ToGenericResolvedBet ==
    Call("to_generic_resolved_bet", OmenBet_to_generic_resolved_bet(bet))

Next ==
    \/ AnswerPosted
    \/ AnswerFinalized
    \/ MarketResolved
    \/ BetBooleanOutcome
    \/ FpmmBooleanOutcome
    \/ MarketBooleanOutcome
    \/ GetResolutionEnum
    \/ GetProfit
    \/ ToGenericResolvedBet

Spec == Init /\ [][Next]_vars

-----------------------------------------------------------------------------
(* Markets as fetched for pricing: any outcome list with any token amounts, *)
(* not yet answered. The outcome decoder is applied to any label.           *)

InitMarket ==
    /\ \E k \in DOMAIN Lengths, j \in DOMAIN Lengths :
         \E o \in ListsOfLength(Lengths[k], Labels),
            a \in ListsOfLength(Lengths[j], AmountValues) :
             market = OmenMarket(o, a, None, None, None)
    /\ bet = OmenBet(OmenBetFPMM(market.outcomes, None, None, None), 0, 10, 15, 1)
    /\ op = "none"
    /\ arg = ""
    /\ result = NotCalled

PYes == Call("p_yes", OmenMarket_p_yes(market))

PNo == Call("p_no", OmenMarket_p_no(market))

GetBooleanOutcome ==
    \E l \in LabelStrings :
        /\ op' = "get_boolean_outcome"
        /\ arg' = l
        /\ result' = get_boolean_outcome(l)
        /\ UNCHANGED <<market, bet>>

NextMarket ==
    \/ PYes
    \/ PNo
    \/ GetBooleanOutcome

SpecMarket == InitMarket /\ [][NextMarket]_vars

-----------------------------------------------------------------------------
(* Vocabulary of the properties, stated on the fields themselves *)

Resolved(r) == r.answerFinalizedTimestamp # None /\ r.currentAnswer # None

Binary(r) == Len(r.outcomes) = 2

\* The label that currentAnswer, read as a hexadecimal integer, selects in
\* outcomes: <<label>>, or <<>> when there is no such label.
AnsweredLabel(r) ==
    IF r.currentAnswer = None THEN None
    ELSE LET k == PyIntBase16(r.currentAnswer[1])
         IN  IF ~k.ok THEN None
             ELSE LET l == PyGetItem(r.outcomes, k.val)
                  IN  IF l.ok THEN Some(l.val) ELSE None

\* The label at the bet's outcomeIndex, likewise.
ChosenLabel(b) ==
    LET l == PyGetItem(b.fpmm.outcomes, b.outcomeIndex)
    IN  IF l.ok THEN Some(l.val) ELSE None

IsBooleanLabel(l) == l \in {Some("Yes"), Some("No")}

RatEq(p, q) == p.num * q.den = q.num * p.den

InUnitInterval(p) ==
    \/ p.den > 0 /\ 0 <= p.num /\ p.num <= p.den
    \/ p.den < 0 /\ 0 >= p.num /\ p.num >= p.den

AllZero(list) == \A k \in 1..Len(list) : list[k] = 0

NonNegative(list) == \A k \in 1..Len(list) : list[k] >= 0

-----------------------------------------------------------------------------
(* Properties of the bet lifecycle (Spec) *)

\* C1, as stated: after get_resolution_enum on any market, a resolved market
\* gives YES or NO and an unresolved one gives None; it never fails on a
\* resolved market.
C1_ResolutionEnumTotal ==
    op = "get_resolution_enum" =>
        IF Resolved(market)
        THEN result.ok /\ result.val \in {"YES", "NO"}
        ELSE result.ok /\ result.val = "None"

\* C1, amended: an unresolved market gives None; a resolved binary market
\* whose currentAnswer selects the label "Yes" gives YES, the label "No"
\* gives NO; every other resolved market (not binary, currentAnswer no hex
\* index into outcomes, or another label) makes get_resolution_enum fail.
C1_ResolutionEnum ==
    op = "get_resolution_enum" =>
        /\ ~Resolved(market) => result = Ok("None")
        /\ Resolved(market) /\ Binary(market)
              /\ AnsweredLabel(market) = Some("Yes") => result = Ok("YES")
        /\ Resolved(market) /\ Binary(market)
              /\ AnsweredLabel(market) = Some("No") => result = Ok("NO")
        /\ Resolved(market)
              /\ ~(Binary(market) /\ IsBooleanLabel(AnsweredLabel(market)))
              => ~result.ok

\* C1 witness: a resolved market for which YES was returned.
C1_Witness ==
    /\ op = "get_resolution_enum"
    /\ Resolved(market)
    /\ result = Ok("YES")

\* C2, as stated: to_generic_resolved_bet fails with MarketNotResolved
\* whenever fpmm.resolutionTimestamp is absent, and in every other case
\* returns a ResolvedBet with the chosen outcome, the market's outcome, the
\* two times and get_profit().
C2_ResolvedBetByTimestamp ==
    op = "to_generic_resolved_bet" =>
        IF bet.fpmm.resolutionTimestamp = None
        THEN result = Err("MarketNotResolved")
        ELSE /\ result.ok
             /\ Ok(result.val.outcome) = OmenBet_boolean_outcome(bet)
             /\ Ok(result.val.market_outcome)
                    = OmenBetFPMM_boolean_outcome(bet.fpmm)
             /\ result.val.created_time = fromtimestamp(bet.creationTimestamp)
             /\ result.val.resolved_time
                    = fromtimestamp(bet.fpmm.resolutionTimestamp[1])
             /\ Ok(result.val.profit) = OmenBet_get_profit(bet)

\* C2, amended: to_generic_resolved_bet fails with MarketNotResolved
\* whenever the embedded market is not resolved (answerFinalizedTimestamp or
\* currentAnswer absent); it fails, with some error, whenever
\* resolutionTimestamp is absent; it returns a ResolvedBet exactly when the
\* embedded market is resolved, binary, has a resolutionTimestamp, and both
\* the label at outcomeIndex and the label currentAnswer selects are "Yes"
\* or "No"; the ResolvedBet then holds the chosen boolean outcome, the
\* market's resolved boolean outcome, the times of creationTimestamp and
\* resolutionTimestamp, and get_profit().
C2_ResolvedBet ==
    op = "to_generic_resolved_bet" =>
        /\ ~Resolved(bet.fpmm) => result = Err("MarketNotResolved")
        /\ bet.fpmm.resolutionTimestamp = None => ~result.ok
        /\ result.ok <=>
              /\ Resolved(bet.fpmm)
              /\ Binary(bet.fpmm)
              /\ bet.fpmm.resolutionTimestamp # None
              /\ IsBooleanLabel(ChosenLabel(bet))
              /\ IsBooleanLabel(AnsweredLabel(bet.fpmm))
        /\ result.ok =>
              /\ result.val.outcome = (ChosenLabel(bet) = Some("Yes"))
              /\ result.val.market_outcome
                    = (AnsweredLabel(bet.fpmm) = Some("Yes"))
              /\ result.val.created_time = fromtimestamp(bet.creationTimestamp)
              /\ result.val.resolved_time
                    = fromtimestamp(bet.fpmm.resolutionTimestamp[1])
              /\ Ok(result.val.profit) = OmenBet_get_profit(bet)

\* C2 witness: a ResolvedBet was produced, for a bet on the losing outcome.
C2_Witness ==
    /\ op = "to_generic_resolved_bet"
    /\ result.ok
    /\ result.val.outcome # result.val.market_outcome

C4_WinningProfitNonNegative ==
    ( /\ op = "get_profit"
      /\ result.ok
      /\ ChosenLabel(bet) = AnsweredLabel(bet.fpmm) ) =>
        result.val.amount.wei + bet.feeAmount >= 0

\* C4, amended: when the chosen boolean outcome equals the market's resolved
\* boolean outcome, the profit before the fee is outcomeTokensTraded -
\* collateralAmount in settlement units, so it is non-negative exactly when
\* outcomeTokensTraded >= collateralAmount.
C4_WinningProfit ==
    ( /\ op = "get_profit"
      /\ result.ok
      /\ ChosenLabel(bet) = AnsweredLabel(bet.fpmm) ) =>
        /\ result.val.amount.wei + bet.feeAmount
              = bet.outcomeTokensTraded - bet.collateralAmount
        /\ result.val.amount.wei + bet.feeAmount >= 0
              <=> bet.outcomeTokensTraded >= bet.collateralAmount

\* C4 witness: a winning bet that bought at least its stake in tokens.
C4_Witness ==
    /\ op = "get_profit"
    /\ result.ok
    /\ ChosenLabel(bet) = AnsweredLabel(bet.fpmm)
    /\ bet.outcomeTokensTraded >= bet.collateralAmount
    /\ result.val.amount.wei + bet.feeAmount >= 0

\* What boolean_outcome gives on a record r of either market type.
ExpectedBooleanOutcome(r, got) ==
    /\ ~Binary(r) => got = Err("NotBinary")
    /\ Binary(r) /\ ~Resolved(r) => got = Err("MarketNotResolved")
    /\ Binary(r) /\ Resolved(r) =>
          /\ AnsweredLabel(r) = Some("Yes") => got = Ok(TRUE)
          /\ AnsweredLabel(r) = Some("No") => got = Ok(FALSE)
          /\ ~IsBooleanLabel(AnsweredLabel(r)) => ~got.ok

\* C9: boolean_outcome of either market type fails when the market is not
\* binary (with the not-binary error, also when it is unresolved too) and
\* fails when it is binary but not resolved; on a binary resolved market it
\* gives the boolean decoding of outcomes[k], k being currentAnswer read as a
\* hexadecimal integer; and OmenMarket and OmenBetFPMM records with the same
\* outcomes, answerFinalizedTimestamp and currentAnswer give the same result.
C9_BooleanOutcome ==
    /\ op = "fpmm.boolean_outcome" =>
          /\ ExpectedBooleanOutcome(bet.fpmm, result)
          /\ result = OmenMarket_boolean_outcome(market)
    /\ op = "market.boolean_outcome" =>
          /\ ExpectedBooleanOutcome(market, result)
          /\ result = OmenBetFPMM_boolean_outcome(bet.fpmm)
    /\ market.outcomes = bet.fpmm.outcomes
    /\ market.answerFinalizedTimestamp = bet.fpmm.answerFinalizedTimestamp
    /\ market.currentAnswer = bet.fpmm.currentAnswer

\* C9 witness: a finalized answer 0x01 on ["Yes", "No"] decodes to false.
C9_Witness ==
    /\ op = "fpmm.boolean_outcome"
    /\ Binary(bet.fpmm)
    /\ Resolved(bet.fpmm)
    /\ bet.fpmm.outcomes = <<"Yes", "No">>
    /\ bet.fpmm.currentAnswer = Some(<<"0", "x", "0", "1">>)
    /\ result = Ok(FALSE)

\* C10: along the lifecycle, while the embedded market is not resolved
\* (answerFinalizedTimestamp or currentAnswer absent) get_profit fails
\* instead of returning an amount; and whenever to_generic_resolved_bet
\* succeeds, get_profit succeeds on the same bet (with the profit the
\* ResolvedBet holds).
C10_NoProfitBeforeResolution ==
    /\ op = "get_profit" /\ ~Resolved(bet.fpmm) => ~result.ok
    /\ op = "to_generic_resolved_bet" /\ result.ok =>
          /\ OmenBet_get_profit(bet).ok
          /\ OmenBet_get_profit(bet).val = result.val.profit

\* C10 witness: the answer is recorded but not finalized, on a well-formed
\* binary market:
\* only the resolution test stands between the bet and an amount.
C10_Witness ==
    /\ op = "get_profit"
    /\ bet.fpmm.outcomes = <<"Yes", "No">>
    /\ bet.outcomeIndex = 0
    /\ bet.fpmm.currentAnswer = Some(<<"0", "x", "0">>)
    /\ bet.fpmm.answerFinalizedTimestamp = None
    /\ result = Err("MarketNotResolved")

-----------------------------------------------------------------------------
(* Properties of the pricing reads and the decoder (SpecMarket) *)

\* C5, as stated: with all outcomeTokenAmounts zero, p_yes returns exactly
\* 0.5 whatever the outcome labels and the number of outcomes.
C5_ZeroAmountsAlwaysHalf ==
    op = "p_yes" /\ AllZero(market.outcomeTokenAmounts) =>
        result.ok /\ result.val = [num |-> 1, den |-> 2]

\* C5, amended: with exactly two outcomeTokenAmounts, both zero, and the
\* label "Yes" among the outcomes, p_yes returns exactly 0.5 (no division
\* by zero); with all amounts zero it otherwise fails: UnsupportedMarketShape
\* when the amounts are not two, OutcomeNotFound when no outcome is "Yes".
C5_ZeroAmountsHalf ==
    op = "p_yes" /\ AllZero(market.outcomeTokenAmounts) =>
        LET two == Len(market.outcomeTokenAmounts) = 2
            yes == \E k \in 1..Len(market.outcomes) : market.outcomes[k] = "Yes"
        IN  /\ two /\ yes => result = Ok([num |-> 1, den |-> 2])
            /\ ~two => result = Err("UnsupportedMarketShape")
            /\ two /\ ~yes => result = Err("OutcomeNotFound")

\* C5 witness: an untraded two-amount pool priced at 0.5.
C5_Witness ==
    /\ op = "p_yes"
    /\ market.outcomeTokenAmounts = <<0, 0>>
    /\ result = Ok([num |-> 1, den |-> 2])

\* C6, as stated: p_yes fails with UnsupportedMarketShape on every market
\* with len(outcomes) != 2.
C6_ShapeByOutcomes ==
    op = "p_yes" /\ Len(market.outcomes) # 2 =>
        result = Err("UnsupportedMarketShape")

\* C6, amended: p_yes and p_no fail with UnsupportedMarketShape on every
\* market with len(outcomeTokenAmounts) != 2, and return a value only for
\* markets with exactly 2 outcomeTokenAmounts.
C6_ShapeByAmounts ==
    op \in {"p_yes", "p_no"} =>
        /\ Len(market.outcomeTokenAmounts) # 2 =>
              result = Err("UnsupportedMarketShape")
        /\ result.ok => Len(market.outcomeTokenAmounts) = 2

\* C6 witness: a two-outcome market with three amounts is refused.
C6_Witness ==
    /\ op = "p_yes"
    /\ Len(market.outcomes) = 2
    /\ Len(market.outcomeTokenAmounts) = 3
    /\ result = Err("UnsupportedMarketShape")

\* C7, as stated: with exactly two non-negative outcomeTokenAmounts of
\* positive sum, and "Yes" at index i of the outcomes, p_yes is
\* 1 - outcomeTokenAmounts[i] / sum, which lies in [0, 1], and p_no is
\* 1 - p_yes, so that p_yes + p_no = 1.
C7_ProbabilityAtYesIndex ==
    LET amounts == market.outcomeTokenAmounts
        total   == PySum(amounts)
    IN  ( /\ op \in {"p_yes", "p_no"}
          /\ Len(amounts) = 2
          /\ NonNegative(amounts)
          /\ total > 0 ) =>
            \A i \in 1..Len(market.outcomes) :
                market.outcomes[i] = "Yes" =>
                    /\ result.ok
                    /\ i <= Len(amounts)
                    /\ op = "p_yes" =>
                          /\ RatEq(result.val, [num |-> total - amounts[i],
                                                 den |-> total])
                          /\ InUnitInterval(result.val)
                    /\ op = "p_no" =>
                          RatEq(result.val, [num |-> amounts[i], den |-> total])

\* C7, amended: with exactly two non-negative outcomeTokenAmounts of
\* positive sum, and i the first index of "Yes" in the outcomes, i < 2:
\* p_yes is 1 - outcomeTokenAmounts[i] / sum, which lies in [0, 1], and
\* p_no is 1 - p_yes, so that p_yes + p_no = 1 (["Yes", "No"] with [30, 70]
\* gives 0.70). When the first "Yes" is at index 2 or later, p_yes fails.
C7_ProbabilityAtFirstYesIndex ==
    LET amounts == market.outcomeTokenAmounts
        total   == PySum(amounts)
    IN  ( /\ op \in {"p_yes", "p_no"}
          /\ Len(amounts) = 2
          /\ NonNegative(amounts)
          /\ total > 0 ) =>
            \A i \in 1..Len(market.outcomes) :
                ( /\ market.outcomes[i] = "Yes"
                  /\ \A j \in 1..(i - 1) : market.outcomes[j] # "Yes" ) =>
                    /\ i > Len(amounts) => ~result.ok
                    /\ i <= Len(amounts) =>
                          /\ result.ok
                          /\ op = "p_yes" =>
                                /\ RatEq(result.val,
                                         [num |-> total - amounts[i],
                                          den |-> total])
                                /\ InUnitInterval(result.val)
                          /\ op = "p_no" =>
                                LET yes == OmenMarket_p_yes(market).val
                                IN  /\ RatEq(result.val, [num |-> amounts[i],
                                                          den |-> total])
                                    /\ result.val.num * yes.den
                                          + yes.num * result.val.den
                                          = result.val.den * yes.den

\* C7 witness: the scenario ["Yes", "No"] with [30, 70], priced at 0.70.
C7_Witness ==
    /\ op = "p_yes"
    /\ market.outcomes = <<"Yes", "No">>
    /\ market.outcomeTokenAmounts = <<30, 70>>
    /\ result.ok
    /\ RatEq(result.val, [num |-> 7, den |-> 10])

\* C8: get_boolean_outcome gives true for exactly "Yes", false for exactly
\* "No", and fails with InvalidOutcomeLabel for every other string, case
\* variants included; no other label is coerced to a boolean.
C8_Decoder ==
    op = "get_boolean_outcome" =>
        /\ arg = "Yes" => result = Ok(TRUE)
        /\ arg = "No" => result = Ok(FALSE)
        /\ arg \notin {"Yes", "No"} => result = Err("InvalidOutcomeLabel")
        /\ result.ok => arg \in {"Yes", "No"}

\* C8 witness: the case variant "yes" is refused.
C8_Witness ==
    /\ op = "get_boolean_outcome"
    /\ arg = "yes"
    /\ result = Err("InvalidOutcomeLabel")

=============================================================================
